---- MODULE Spec2Model ----
(***************************************************************************)
(* State-machine model of the repository composition layer of the SDK:     *)
(*   RepositoryFactoryHttp  (src/src/infrastructure/NamespaceHttp.ts 351-) *)
(*   NamespaceHttp          (src/src/infrastructure/NamespaceHttp.ts 44-)  *)
(*   AccountHttp            (src/src/infrastructure/AccountHttp.ts)        *)
(*   BlockHttp              (src/src/infrastructure/BlockHttp.ts)          *)
(*                                                                         *)
(* One factory is constructed (Init), then callers interleave accessor     *)
(* calls, repository creation, repository method invocations,              *)
(* subscriptions, unsubscriptions, and the node answers the outstanding    *)
(* requests.  Observables are heap objects: the model keeps track of which *)
(* observable object every accessor and every repository holds.           *)
(*                                                                         *)
(* Spec is that state machine.  The mapping layer is covered by further    *)
(* specifications over the same factory: SpecNamespace (the request        *)
(* methods of NamespaceHttp), SpecPaging (list requests), SpecDecode       *)
(* (namespace response mappers), SpecListener (createListener) and         *)
(* SpecCodec (UInt64 heights of BlockHttp).                                *)
(***************************************************************************)
EXTENDS Integers, Sequences, FiniteSets, Bags, TLC

(* ------------------------------ bounds -------------------------------- *)
\* Number of operations the client program performs on the factory and its
\* repositories: create*Repository, method invocations and subscriptions.
MaxOps == 4
\* Number of list-style calls the client makes one after the other.
MaxListCalls == 2
\* Width in bits of one word of a UInt64 (the two 32-bit words, scaled down)
\* and the longest numeric string a DTO carries.
WordBits == 4
MaxDigits == 3

(* ------------------------------ values -------------------------------- *)
Undefined == "undefined"

\* NetworkType codes the node may answer with.
NetworkTypes == {"MAIN_NET", "TEST_NET"}
\* generation hash seeds the node may answer with.
GenerationHashes == {"NODE_HASH"}

\* RepositoryFactoryConfig values the constructor may be handed.
ConfigNetworkTypes == {Undefined, "TEST_NET"}
ConfigGenerationHashes == {Undefined, "", "CFG_HASH"}

Addresses == {"addrA"}

\* JavaScript truthiness of an optional string / enum value, as tested by
\* `configs?.networkType ? ... : ...`.
Truthy(v) == v # Undefined /\ v # ""

(* --------------------------- observables ------------------------------ *)
\* The two observable fields of the factory, and the observable a repository
\* builds for itself when it is constructed without one.
NetworkTypeField == <<"networkType", 0>>
GenerationHashField == <<"generationHash", 0>>
OwnObservable(r) == <<"repository", r>>
NoObservable == <<"none", 0>>

\* Endpoint an identity fetch goes to.
IdentityEndpoint(h) == IF h = GenerationHashField THEN <<"/node/info", "">> ELSE <<"/network", "">>

\* Bodies the node may answer an identity fetch with (after the
\* `map((b) => b.networkGenerationHashSeed)` projection for the hash).
IdentityBodies(h) == IF h = GenerationHashField THEN GenerationHashes ELSE NetworkTypes

\* observableOf(value): emits value and completes on every subscription.
ObservableOf(v) ==
    [kind |-> "of", value |-> v, promise |-> "none", body |-> Undefined,
     fetches |-> 0, subject |-> FALSE, buffer |-> Undefined, hasError |-> FALSE,
     isComplete |-> FALSE, refCount |-> 0, subscription |-> FALSE, connects |-> 0]

\* A repository method built on Http.call(remoteCall, mapper): the generated
\* client's request is an argument of call(), evaluated when the method is
\* invoked, so the request is outstanding as soon as the method returns.
RemoteCallPromise == "pending"

\* <remote call>.pipe(shareReplay(1)): the state of the operator's closure
\* (subject, hasError, isComplete, refCount, subscription) before the first
\* subscription, over a source that wraps the remote call.
ShareReplayOf(promise) ==
    [kind |-> "shareReplay", value |-> Undefined, promise |-> promise, body |-> Undefined,
     fetches |-> IF promise = "pending" THEN 1 ELSE 0,
     subject |-> FALSE, buffer |-> Undefined, hasError |-> FALSE,
     isComplete |-> FALSE, refCount |-> 0, subscription |-> FALSE, connects |-> 0]

\* constructor: configs?.x ? observableOf(configs.x) : <repository call>.pipe(shareReplay(1))
ConstructField(configured) ==
    IF Truthy(configured) THEN ObservableOf(configured) ELSE ShareReplayOf(RemoteCallPromise)

(* ------------------------------- urls --------------------------------- *)
\* A url is a sequence of pieces: scheme and host in one piece, then the
\* characters and path segments that follow it.
Host == "http://node:3000"
Urls == {<<Host>>, <<Host, "/">>, <<Host, "/", "/">>, <<Host, "/", "api">>}

\* An absent url, as distinct from the empty string <<>>.
UndefinedUrl == <<Undefined>>

\* JavaScript truthiness of an optional string.
TruthyUrl(u) == u # UndefinedUrl /\ u # <<>>

\* RepositoryFactoryConfig.websocketUrl / websocketInjected values.
ConfigWebsocketUrls == {UndefinedUrl, <<>>, <<"ws://push:3001", "/", "stream">>}
ConfigWebsocketInjected == {Undefined, "InjectedWebSocket"}

\* url.replace(/\/$/, ''): one slash at the end of the string is removed.
StripTrailingSlash_kept(url) == url
StripTrailingSlash(url) ==
    IF Len(url) > 0 /\ url[Len(url)] = "/" THEN SubSeq(url, 1, Len(url) - 1) ELSE url

\* constructor: configs?.websocketUrl ? configs?.websocketUrl : `${url.replace(/\/$/, '')}/ws`
ConstructWebsocketUrl(url, configured) ==
    IF TruthyUrl(configured) THEN configured ELSE StripTrailingSlash(url) \o <<"/", "ws">>

\* The url, websocketUrl and websocketInjected fields after construction.
ConstructEndpoint(url, wsUrl, wsInjected) ==
    [url |-> url, configured |-> wsUrl,
     websocketUrl |-> ConstructWebsocketUrl(url, wsUrl),
     websocketInjected |-> wsInjected]

\* Nothing has been returned to the caller yet.
NoResult == [op |-> "none"]

VARIABLES
    configs,   \* the RepositoryFactoryConfig the factory was constructed with
    heap,      \* observable objects: handle -> state
    http,      \* outbound requests issued so far: <<endpoint, argument>> -> count
    repos,     \* repositories created: set of [kind, networkTypeObservable]
    calls,     \* repository method invocations
    subs,      \* consumer subscriptions: bag of subscription records
    endpoint,  \* the factory's url, websocketUrl and websocketInjected fields
    requests,  \* list requests handed to the generated client, in order
    result     \* what the last mapping / decoding / accessor step returned

vars == <<configs, heap, http, repos, calls, subs>>

\* The part of the state the repository and subscription steps leave alone.
mapping == <<endpoint, requests, result>>

HttpKeys ==
    {<<"/network", "">>, <<"/node/info", "">>, <<"/blocks", "1">>, <<"/namespaces", "ns">>,
     <<"/account/namespaces", "addrA">>, <<"/account/namespaces/post", "addrA">>,
     <<"/namespaces/account/names", "addrA">>, <<"/namespaces/mosaic/names", "mosaic">>,
     <<"/namespaces/names", "ns">>}
    \cup {<<"/accounts", a>> : a \in Addresses}

NoRequests == [k \in HttpKeys |-> 0]

Issue(log, key, n) == [log EXCEPT ![key] = @ + n]

(* ------------------------------ Init ---------------------------------- *)
\* RepositoryFactoryHttp.constructor: the two observable fields.
ConstructFactory ==
    /\ configs \in [networkType : ConfigNetworkTypes, generationHash : ConfigGenerationHashes]
    \* the two fields are constructed independently of each other: the empty
    \* hash is tried together with a supplied network type only
    /\ configs.generationHash = "" => configs.networkType # Undefined
    /\ heap = (NetworkTypeField :> ConstructField(configs.networkType))
              @@ (GenerationHashField :> ConstructField(configs.generationHash))
    /\ http = Issue(Issue(NoRequests, IdentityEndpoint(NetworkTypeField),
                          heap[NetworkTypeField].fetches),
                    IdentityEndpoint(GenerationHashField), heap[GenerationHashField].fetches)
    /\ repos = {}
    /\ calls = <<>>
    /\ subs = EmptyBag

\* RepositoryFactoryHttp.constructor, for a factory at the plain url with no
\* push-channel configuration.
Init ==
    /\ ConstructFactory
    /\ endpoint = ConstructEndpoint(<<Host>>, UndefinedUrl, Undefined)
    /\ requests = <<>>
    /\ result = NoResult

\* Operations performed so far.
Ops == Cardinality(repos) + Len(calls) + BagCardinality(subs)

(* ---------------------- observable expressions ------------------------ *)
\* What an expression of type Observable evaluates to: a reference to an
\* observable object that already exists, or a newly built
\* <remote call>.pipe(shareReplay(1)) that is stored at a new handle.
Ref(h) == [new |-> FALSE, at |-> h]
Fresh(h) == [new |-> TRUE, at |-> h]

HeapWith(e) == IF e.new THEN heap @@ (e.at :> ShareReplayOf(RemoteCallPromise)) ELSE heap
HttpWith(e) == IF e.new THEN Issue(http, IdentityEndpoint(e.at), 1) ELSE http

\* RepositoryFactoryHttp.getNetworkType(): return this.networkType
getNetworkType_rebuilt == Fresh(<<"accessor", BagCardinality(subs) + 1>>)
getNetworkType == Ref(NetworkTypeField)

\* RepositoryFactoryHttp.getGenerationHash(): return this.generationHash
getGenerationHash == Ref(GenerationHashField)

(* ---------------------------- shareReplay ----------------------------- *)
\* shareReplay: `if (!subject || hasError)` - a new ReplaySubject is made and
\* the source is subscribed.
ConnectsSource(o) == ~o.subject \/ o.hasError

\* Subscribing one consumer to observable o.  Yields the observable's next
\* state and what the consumer is handed synchronously (Undefined: nothing
\* yet).  For shareReplay: refCount++, connect when needed, then
\* subject.subscribe(consumer) replays the buffer; a consumer that is handed
\* the value of a completed subject completes at once (refCount--).
\* connects counts the ReplaySubjects made so far; `subject` tells the
\* consumer which of them it waits on (0: it was handed a value at once).
SubscribeObservable(o) ==
    IF o.kind = "of"
    THEN [obs |-> o, emit |-> o.value, fetch |-> 0, subject |-> 0]
    ELSE LET c == IF ConnectsSource(o)
                  THEN [o EXCEPT !.hasError = FALSE, !.subject = TRUE,
                                 !.buffer = Undefined, !.subscription = TRUE,
                                 !.connects = @ + 1]
                  ELSE o
         IN  [obs |-> [c EXCEPT !.refCount = IF c.buffer = Undefined THEN @ + 1 ELSE @],
              emit |-> c.buffer, fetch |-> c.fetches,
              subject |-> IF c.buffer = Undefined THEN c.connects ELSE 0]

\* Teardown of one waiting consumer of observable o (refCount: false, the
\* source subscription and the subject are left alone).
UnsubscribeObservable_dropsSource(o) ==
    IF o.kind = "of" THEN o
    ELSE [o EXCEPT !.refCount = @ - 1, !.subscription = FALSE]
UnsubscribeObservable(o) ==
    IF o.kind = "of" THEN o ELSE [o EXCEPT !.refCount = @ - 1]

(* ---------------------------- repositories ---------------------------- *)
RepoKinds == {"account", "block", "namespace", "mosaic", "multisig", "receipt"}
\* The repositories whose constructor takes the network type.
ContextKinds == {"namespace", "mosaic", "multisig", "receipt"}

\* create*Repository(): the second constructor argument the factory passes.
NetworkTypeArgument_omitted(kind) == NoObservable
NetworkTypeArgument(kind) == IF kind \in ContextKinds THEN NetworkTypeField ELSE NoObservable

\* Http.createNetworkTypeObservable(networkType), called by the constructor
\* of a context-dependent repository r: an Observable is kept as it is,
\* otherwise the repository resolves the network type on its own.
createNetworkTypeObservable(arg, r) ==
    IF arg # NoObservable THEN Ref(arg) ELSE Fresh(OwnObservable(r))

\* create<Resource>Repository().  Repositories hold a url and, for the
\* context kinds, a reference to an observable; two repositories with the
\* same fields behave alike, so the model keeps the set of them.
CreateRepository(kind) ==
    /\ Ops < MaxOps
    /\ LET r == Cardinality(repos) + 1
           arg == NetworkTypeArgument(kind)
       IN  IF kind \in ContextKinds
           THEN LET e == createNetworkTypeObservable(arg, r)
                IN  /\ repos' = repos \cup {[kind |-> kind, networkTypeObservable |-> e.at]}
                    /\ heap' = HeapWith(e)
                    /\ http' = HttpWith(e)
           ELSE /\ repos' = repos \cup {[kind |-> kind, networkTypeObservable |-> NoObservable]}
                /\ UNCHANGED <<heap, http>>
    /\ UNCHANGED <<mapping, configs, calls, subs>>

(* ------------------------------ methods ------------------------------- *)
\* NamespaceHttp methods that pipe networkTypeObservable through mergeMap.
ContextMethods ==
    {"getNamespace", "getNamespacesFromAccount", "getNamespacesFromAccounts",
     "getLinkedMosaicId", "getLinkedAddress"}
DirectMethods == {"getAccountInfo", "getBlockByHeight"}
Methods == ContextMethods \cup DirectMethods
\* NamespaceHttp methods that call this.call directly, without the context.
NameMethods == {"getAccountsNames", "getMosaicsNames", "getNamespacesName"}

KindOf(m) ==
    IF m \in ContextMethods \cup NameMethods THEN "namespace"
    ELSE IF m = "getBlockByHeight" THEN "block" ELSE "account"

ArgsOf(m) ==
    CASE m = "getAccountInfo" -> Addresses
      [] m = "getBlockByHeight" -> {"1"}
      [] m \in {"getNamespacesFromAccount", "getNamespacesFromAccounts",
                "getAccountsNames"} -> {"addrA"}
      [] m = "getMosaicsNames" -> {"mosaic"}
      [] OTHER -> {"ns"}

\* The generated-client route a method calls, with its argument.
EndpointOf(m, a) ==
    CASE m = "getAccountInfo" -> <<"/accounts", a>>
      [] m = "getBlockByHeight" -> <<"/blocks", a>>
      [] m = "getNamespacesFromAccount" -> <<"/account/namespaces", a>>
      [] m = "getNamespacesFromAccounts" -> <<"/account/namespaces/post", a>>
      [] m = "getAccountsNames" -> <<"/namespaces/account/names", a>>
      [] m = "getMosaicsNames" -> <<"/namespaces/mosaic/names", a>>
      [] m = "getNamespacesName" -> <<"/namespaces/names", a>>
      [] OTHER -> <<"/namespaces", a>>

\* Whether the route call is an argument evaluated by the method itself
\* (this.call(api.route(...), mapper)) or sits inside the mergeMap projection
\* and runs once per emitted network type.
IssuesAtInvocation_always(m) == TRUE
IssuesAtInvocation_never(m) == FALSE
IssuesAtInvocation(m) == m \notin ContextMethods

\* A repository method is invoked: the Observable it returns is call k.
Invoke(r, m, a) ==
    /\ Ops < MaxOps
    /\ r \in repos
    /\ r.kind = KindOf(m)
    /\ a \in ArgsOf(m)
    /\ LET eager == IssuesAtInvocation(m)
       IN  /\ calls' = Append(calls, [method |-> m, repo |-> r, arg |-> a,
                                      promise |-> IF eager THEN "pending" ELSE "none",
                                      requests |-> IF eager THEN 1 ELSE 0])
           /\ http' = IF eager THEN Issue(http, EndpointOf(m, a), 1) ELSE http
    /\ UNCHANGED <<mapping, configs, heap, repos, subs>>

(* ---------------------------- subscriptions --------------------------- *)
\* Consumers that are in the same state are interchangeable: subs is a bag.
\*   op      "getNetworkType" | "getGenerationHash" | "call"
\*   call    index of the invocation subscribed to (0 for an accessor)
\*   ctx     the context observable the consumer is attached to
\*   st      "awaitContext" | "awaitResponse" | "next" | "error" | "unsubscribed"
\*   value   the context value the consumer was handed
\*   error   "" | "ResolutionFailure" | "TransportError"
\*   fetch   which identity request of ctx produced the outcome
\*   own     a route call was made on behalf of this consumer alone
\*   subject which ReplaySubject of ctx the consumer waited on: 1 the first,
\*           2.. one made after a failure, 0 none (the value was replayed)
NewSub(op, k, h, st, v, err, f, own, sj) ==
    [op |-> op, call |-> k, ctx |-> h, st |-> st, value |-> v, error |-> err,
     fetch |-> f, own |-> own, subject |-> sj]

One(u) == SetToBag({u})
Replace(u, v) == (subs (-) One(u)) (+) One(v)

RECURSIVE Copies(_, _)
\* Number of consumers of bag B whose record is in set S.
Copies(S, B) ==
    IF S = {} THEN 0
    ELSE LET u == CHOOSE x \in S : TRUE
         IN  CopiesIn(u, B) + Copies(S \ {u}, B)

\* The bag B with every consumer u replaced by F(u).
MapSubs(F(_), B) ==
    LET img == {F(u) : u \in BagToSet(B)}
    IN  [v \in img |-> Copies({u \in BagToSet(B) : F(u) = v}, B)]

\* A consumer subscribes to the Observable an accessor returned.
SubscribeAccessor(op, e) ==
    /\ Ops < MaxOps
    /\ LET hp == HeapWith(e)
           r == SubscribeObservable(hp[e.at])
       IN  /\ heap' = [hp EXCEPT ![e.at] = r.obs]
           /\ http' = HttpWith(e)
           /\ subs' = subs (+) One(
                  IF r.emit # Undefined
                  THEN NewSub(op, 0, e.at, "next", r.emit, "", r.fetch, FALSE, 0)
                  ELSE NewSub(op, 0, e.at, "awaitContext", Undefined, "", 0, FALSE, r.subject))
    /\ UNCHANGED <<mapping, configs, repos, calls>>

GetNetworkType == SubscribeAccessor("getNetworkType", getNetworkType)
GetGenerationHash == SubscribeAccessor("getGenerationHash", getGenerationHash)

\* The mergeMap projection of a context method of call k runs for n
\* consumers: one route call each.
Project(cs, k, n) ==
    IF n = 0 THEN cs ELSE [cs EXCEPT ![k].requests = @ + n]

\* A consumer subscribes to the Observable of call k.
SubscribeCall(k) ==
    /\ Ops < MaxOps
    /\ k \in 1..Len(calls)
    /\ LET c == calls[k]
       IN  IF c.method \in ContextMethods
           THEN \* networkTypeObservable.pipe(mergeMap(...)).subscribe
                LET h == c.repo.networkTypeObservable
                    r == SubscribeObservable(heap[h])
                    now == r.emit # Undefined
                    fire == now /\ c.promise = "none"
                IN  /\ heap' = [heap EXCEPT ![h] = r.obs]
                    /\ calls' = Project(calls, k, IF fire THEN 1 ELSE 0)
                    /\ http' = IF fire THEN Issue(http, EndpointOf(c.method, c.arg), 1) ELSE http
                    /\ subs' = subs (+) One(
                           IF ~now
                           THEN NewSub("call", k, h, "awaitContext", Undefined, "", 0, FALSE,
                                       r.subject)
                           ELSE IF c.promise = "fulfilled"
                           THEN NewSub("call", k, h, "next", r.emit, "", r.fetch, FALSE, 0)
                           ELSE IF c.promise = "rejected"
                           THEN NewSub("call", k, h, "error", r.emit, "TransportError", r.fetch,
                                       FALSE, 0)
                           ELSE NewSub("call", k, h, "awaitResponse", r.emit, "", r.fetch, fire, 0))
           ELSE \* observableFrom(remoteCall).pipe(map, catchError).subscribe
                /\ calls' = Project(calls, k, IF c.promise = "none" THEN 1 ELSE 0)
                /\ http' = IF c.promise = "none"
                            THEN Issue(http, EndpointOf(c.method, c.arg), 1) ELSE http
                /\ subs' = subs (+) One(
                       CASE c.promise = "fulfilled" ->
                              NewSub("call", k, NoObservable, "next", Undefined, "", 0, FALSE, 0)
                         [] c.promise = "rejected" ->
                              NewSub("call", k, NoObservable, "error", Undefined, "TransportError", 0,
                                     FALSE, 0)
                         [] OTHER ->
                              NewSub("call", k, NoObservable, "awaitResponse", Undefined, "", 0,
                                     c.promise = "none", 0))
                /\ UNCHANGED heap
    /\ UNCHANGED <<mapping, configs, repos>>

\* A consumer abandons its subscription before it has an outcome.
Unsubscribe(u) ==
    /\ BagIn(u, subs)
    /\ u.st \in {"awaitContext", "awaitResponse"}
    /\ subs' = Replace(u, [u EXCEPT !.st = "unsubscribed"])
    /\ heap' = IF u.st = "awaitContext"
                THEN [heap EXCEPT ![u.ctx] = UnsubscribeObservable(@)]
                ELSE heap
    /\ UNCHANGED <<mapping, configs, http, repos, calls>>

(* ------------------------------ the node ------------------------------ *)
\* The consumers waiting on context observable h.
Waiting(h) == {u \in BagToSet(subs) : u.ctx = h /\ u.st = "awaitContext"}

\* The consumers among ws whose mergeMap projection issues a route call.
Firing(ws) == {u \in ws : u.op = "call" /\ calls[u.call].promise = "none"}

\* What consumer u becomes when its context observable emits v.
OnContextNext(u, v, f) ==
    IF u.op # "call"
    THEN [u EXCEPT !.st = "next", !.value = v, !.fetch = f]
    ELSE LET p == calls[u.call].promise IN
         [u EXCEPT !.value = v, !.fetch = f,
                   !.own = (p = "none"),
                   !.st = CASE p = "fulfilled" -> "next"
                            [] p = "rejected" -> "error"
                            [] OTHER -> "awaitResponse",
                   !.error = IF p = "rejected" THEN "TransportError" ELSE ""]

\* What consumer u becomes when its context observable fails.
OnContextError(u, f) ==
    [u EXCEPT !.st = "error", !.error = "ResolutionFailure", !.fetch = f]

\* The source subscription of shareReplay hands the settled remote call
\* (observable state o, stored at h) to the subject: next + complete, or
\* error.  Every waiting consumer is notified synchronously, and the
\* mergeMap projections of the waiting context calls run.
Deliver(h, o) ==
    LET ws == Waiting(h)
        n == Copies(ws, subs)
        Next1(u) == IF u \in ws THEN OnContextNext(u, o.body, o.fetches) ELSE u
        Error1(u) == IF u \in ws THEN OnContextError(u, o.fetches) ELSE u
    IN  IF o.promise = "fulfilled"
        THEN /\ heap' = [heap EXCEPT ![h] = [o EXCEPT !.buffer = o.body, !.isComplete = TRUE,
                                                      !.subscription = FALSE,
                                                      !.refCount = @ - n]]
             /\ subs' = MapSubs(Next1, subs)
             /\ calls' = [k \in 1..Len(calls) |->
                           Project(calls, k,
                                   Copies({u \in Firing(ws) : u.call = k}, subs))[k]]
             /\ http' = [key \in HttpKeys |->
                           http[key] + Copies({u \in Firing(ws) :
                               EndpointOf(calls[u.call].method, calls[u.call].arg) = key}, subs)]
        ELSE /\ heap' = [heap EXCEPT ![h] = [o EXCEPT !.hasError = TRUE,
                                                      !.subscription = FALSE,
                                                      !.refCount = @ - n]]
             /\ subs' = MapSubs(Error1, subs)
             /\ UNCHANGED <<calls, http>>

\* The node answers the identity request behind observable h.  When the
\* source is subscribed, the promise's reaction runs before any other task.
FetchSettles(h, ok, body) ==
    /\ h \in DOMAIN heap
    /\ heap[h].promise = "pending"
    /\ body \in IdentityBodies(h)
    /\ LET o == [heap[h] EXCEPT !.promise = IF ok THEN "fulfilled" ELSE "rejected",
                                !.body = IF ok THEN body ELSE Undefined]
       IN  IF o.subscription
           THEN Deliver(h, o)
           ELSE /\ heap' = [heap EXCEPT ![h] = o]
                /\ UNCHANGED <<http, calls, subs>>
    /\ UNCHANGED <<mapping, configs, repos>>

\* The source was subscribed after the remote call had settled: the
\* promise's reaction runs as a microtask after the subscribing code.
SourceDelivers(h) ==
    /\ h \in DOMAIN heap
    /\ heap[h].kind = "shareReplay"
    /\ heap[h].subscription
    /\ heap[h].promise \in {"fulfilled", "rejected"}
    /\ Deliver(h, heap[h])
    /\ UNCHANGED <<mapping, configs, repos>>

\* The node answers the route call made by the invocation of call k; every
\* consumer attached to that call's promise is notified.
CallResponds(k, ok) ==
    /\ k \in 1..Len(calls)
    /\ calls[k].promise = "pending"
    /\ calls' = [calls EXCEPT ![k].promise = IF ok THEN "fulfilled" ELSE "rejected"]
    /\ LET Settle(u) ==
              IF u.call = k /\ u.st = "awaitResponse" /\ ~u.own
              THEN [u EXCEPT !.st = IF ok THEN "next" ELSE "error",
                             !.error = IF ok THEN "" ELSE "TransportError"]
              ELSE u
       IN  subs' = MapSubs(Settle, subs)
    /\ UNCHANGED <<mapping, configs, heap, http, repos>>

\* The node answers the route call made on behalf of one consumer alone.
SubResponds(u, ok) ==
    /\ BagIn(u, subs)
    /\ u.st = "awaitResponse"
    /\ u.own
    /\ subs' = Replace(u, [u EXCEPT !.st = IF ok THEN "next" ELSE "error",
                                    !.error = IF ok THEN "" ELSE "TransportError"])
    /\ UNCHANGED <<mapping, configs, heap, http, repos, calls>>

(* ------------------------------- Next --------------------------------- *)
Next ==
    \/ \E kind \in RepoKinds : CreateRepository(kind)
    \/ GetNetworkType
    \/ GetGenerationHash
    \/ \E r \in repos, m \in Methods, a \in Addresses \cup {"1", "ns"} : Invoke(r, m, a)
    \/ \E k \in 1..Len(calls) : SubscribeCall(k)
    \/ \E u \in BagToSet(subs) : Unsubscribe(u)
    \/ \E h \in DOMAIN heap, ok \in BOOLEAN, body \in NetworkTypes \cup GenerationHashes :
          FetchSettles(h, ok, body)
    \/ \E h \in DOMAIN heap : SourceDelivers(h)
    \/ \E k \in 1..Len(calls), ok \in BOOLEAN : CallResponds(k, ok)
    \/ \E u \in BagToSet(subs), ok \in BOOLEAN : SubResponds(u, ok)

Spec == Init /\ [][Next]_vars

(* ------------------------ namespace repository ------------------------ *)
\* RepositoryFactoryHttp.constructor, for a factory that is handed the
\* generation hash: the network type is the one value left to resolve.
InitNamespace == Init /\ Truthy(configs.generationHash)

\* A client that works with the namespace repository only: the eight
\* request methods of NamespaceHttp, next to getNetworkType().
NextNamespace ==
    \/ CreateRepository("namespace")
    \/ GetNetworkType
    \/ \E r \in repos, m \in ContextMethods \cup NameMethods, a \in {"addrA", "mosaic", "ns"} :
          Invoke(r, m, a)
    \/ \E k \in 1..Len(calls) : SubscribeCall(k)
    \/ \E u \in BagToSet(subs) : Unsubscribe(u)
    \/ \E h \in DOMAIN heap, ok \in BOOLEAN, body \in NetworkTypes \cup GenerationHashes :
          FetchSettles(h, ok, body)
    \/ \E h \in DOMAIN heap : SourceDelivers(h)
    \/ \E k \in 1..Len(calls), ok \in BOOLEAN : CallResponds(k, ok)
    \/ \E u \in BagToSet(subs), ok \in BOOLEAN : SubResponds(u, ok)

SpecNamespace == InitNamespace /\ [][NextNamespace]_vars

(* ---------------------------- list requests --------------------------- *)
\* The optional QueryParams / TransactionFilter argument of a list call.
NoQueryParams == [given |-> FALSE]
QueryParamsInputs ==
    {NoQueryParams}
    \cup [given : {TRUE}, pageSize : {25}, id : {Undefined, "cursor"}, ordering : {"asc", "desc"}]

NoTransactionFilter == [given |-> FALSE]
TransactionFilterInputs == {NoTransactionFilter, [given |-> TRUE, type |-> "TRANSFER"]}

\* The page size substituted when no QueryParams is supplied.
DefaultPageSize == 10

\* Http.queryParams(queryParams): the PagedQuery {pageSize, id, ordering}
\* with the fixed defaults when the argument is not supplied.
queryParams(qp) ==
    IF qp.given
    THEN [pageSize |-> qp.pageSize, id |-> qp.id, ordering |-> qp.ordering]
    ELSE [pageSize |-> DefaultPageSize, id |-> Undefined, ordering |-> "asc"]

\* Http.transactionFilter(filter)
transactionFilter(tf) == [type |-> IF tf.given THEN tf.type ELSE Undefined]

ListMethods == {"getAccountTransactions", "getBlockTransactions", "getNamespacesFromAccount"}

\* The generated-client route of a list method and what it is called for:
\* address.plain() or height.toString().
ListRoute(m) ==
    CASE m = "getAccountTransactions" -> "getAccountConfirmedTransactions"
      [] m = "getBlockTransactions" -> "getBlockTransactions"
      [] OTHER -> "getNamespacesFromAccount"
ListTargets(m) == IF m = "getBlockTransactions" THEN {"1"} ELSE Addresses

\* The three paging arguments of the route call, in the order the route
\* takes them: this.queryParams(queryParams).pageSize, .id, .ordering.
PagingArguments_swapped(qp) ==
    <<queryParams(qp).pageSize, queryParams(qp).ordering, queryParams(qp).id>>
PagingArguments(qp) ==
    <<queryParams(qp).pageSize, queryParams(qp).id, queryParams(qp).ordering>>

\* The request a list method hands to the generated client.
ListRequest(m, a, qp, tf) ==
    [route |-> ListRoute(m), target |-> a,
     pageSize |-> PagingArguments(qp)[1], id |-> PagingArguments(qp)[2],
     ordering |-> PagingArguments(qp)[3],
     type |-> IF m = "getAccountTransactions" THEN transactionFilter(tf).type ELSE Undefined]

\* getAccountTransactions / getBlockTransactions / getNamespacesFromAccount:
\* the route call made for the invocation.
GetList(m, a, qp, tf) ==
    /\ Len(requests) < MaxListCalls
    /\ a \in ListTargets(m)
    /\ m # "getAccountTransactions" => tf = NoTransactionFilter
    /\ requests' = Append(requests, [method |-> m, options |-> qp,
                                      request |-> ListRequest(m, a, qp, tf)])
    /\ UNCHANGED <<vars, endpoint, result>>

NextPaging ==
    \E m \in ListMethods, a \in Addresses \cup {"1"}, qp \in QueryParamsInputs,
       tf \in TransactionFilterInputs : GetList(m, a, qp, tf)

SpecPaging == Init /\ [][NextPaging]_<<vars, mapping>>

(* ------------------------- namespace responses ------------------------ *)
\* AliasType, the discriminator of namespace.alias.
AliasTypes == {"None", "Mosaic", "Address"}

\* namespace.alias of a NamespaceDTO: absent, or a type with the optional
\* payload fields mosaicId and address.
AbsentAlias == [present |-> FALSE, type |-> Undefined, mosaicId |-> Undefined, address |-> Undefined]
AliasDTOs ==
    {AbsentAlias}
    \cup [present : {TRUE}, type : AliasTypes, mosaicId : {Undefined, "MOSAIC_ID"},
          address : {Undefined, "ADDRESS"}]

\* What the node answers a namespace request with: a non-2xx status, a 2xx
\* body that carries no namespace (a rest error object), or a NamespaceInfoDTO.
ErrorStatuses == {"404", "500"}
Responses ==
    [ok : {FALSE}, status : ErrorStatuses, hasNamespace : {FALSE}, alias : {AbsentAlias}]
    \cup [ok : {TRUE}, status : {"200"}, hasNamespace : {FALSE}, alias : {AbsentAlias}]
    \cup [ok : {TRUE}, status : {"200"}, hasNamespace : {TRUE}, alias : AliasDTOs]

\* What evaluating a mapper does: it returns a value or it throws.
Return(variant, payload) ==
    [st |-> "return", value |-> [variant |-> variant, payload |-> payload], thrown |-> ""]
Throw(x) ==
    [st |-> "throw", value |-> [variant |-> "", payload |-> Undefined], thrown |-> x]

\* new MosaicId(id) / Address.createFromEncoded(address): an identifier is
\* built from the raw encoding it is given.  What the constructors do with
\* a missing encoding is left open: the object is built without it, or the
\* constructor throws.
IdentifierOf(variant, raw) ==
    IF raw # Undefined THEN {Return(variant, raw)}
    ELSE {Return(variant, Undefined), Throw("ConstructorError")}

\* NamespaceHttp.extractAlias(namespace)
extractAlias_byPresence(alias) ==
    IF alias.present /\ alias.mosaicId # Undefined THEN IdentifierOf("Mosaic", alias.mosaicId)
    ELSE IF alias.present /\ alias.address # Undefined THEN IdentifierOf("Address", alias.address)
    ELSE {Return("None", Undefined)}
extractAlias(alias) ==
    IF alias.present /\ alias.type = "Mosaic" THEN IdentifierOf("Mosaic", alias.mosaicId)
    ELSE IF alias.present /\ alias.type = "Address" THEN IdentifierOf("Address", alias.address)
    ELSE {Return("None", Undefined)}

\* NamespaceHttp.toNamespaceInfo(dto, networkType): the NamespaceInfo is the
\* dto's fields copied, the owner under networkType, and the alias.  Reading
\* dto.namespace.registrationType of a body without namespace throws.
toNamespaceInfo(body, networkType) ==
    IF ~body.hasNamespace THEN {Throw("TypeError")} ELSE extractAlias(body.alias)

\* The mapper of getLinkedMosaicId.
LinkedMosaicIdMapper_lenient(body) ==
    IF ~body.hasNamespace THEN {Throw("UpstreamBody")}
    ELSE IF ~body.alias.present THEN {Throw("TypeError")}
    ELSE {Return("MosaicId", body.alias.mosaicId)}
LinkedMosaicIdMapper(body) ==
    IF ~body.hasNamespace THEN {Throw("UpstreamBody")}
    ELSE IF ~body.alias.present THEN {Throw("TypeError")}
    ELSE IF \/ body.alias.type = "None"
            \/ body.alias.type # "Mosaic"
            \/ ~Truthy(body.alias.mosaicId)
    THEN {Throw("No mosaicId is linked to namespace")}
    ELSE {Return("MosaicId", body.alias.mosaicId)}

\* The mapper of getLinkedAddress.
LinkedAddressMapper_byPresence(body) ==
    IF ~body.hasNamespace THEN {Throw("UpstreamBody")}
    ELSE IF ~body.alias.present THEN {Throw("TypeError")}
    ELSE IF ~Truthy(body.alias.address)
    THEN {Throw("No address is linked to namespace")}
    ELSE {Return("Address", body.alias.address)}
LinkedAddressMapper(body) ==
    IF ~body.hasNamespace THEN {Throw("UpstreamBody")}
    ELSE IF ~body.alias.present THEN {Throw("TypeError")}
    ELSE IF \/ body.alias.type = "None"
            \/ body.alias.type # "Address"
            \/ ~Truthy(body.alias.address)
    THEN {Throw("No address is linked to namespace")}
    ELSE {Return("Address", body.alias.address)}

DecodingMethods == {"getNamespace", "getLinkedMosaicId", "getLinkedAddress"}

\* The mapper each method hands to this.call, applied to a body.
Mapper(m, body, networkType) ==
    CASE m = "getNamespace" -> toNamespaceInfo(body, networkType)
      [] m = "getLinkedMosaicId" -> LinkedMosaicIdMapper(body)
      [] OTHER -> LinkedAddressMapper(body)

\* Http.call(remoteCall, mapper): the outcome handed to the consumer.  A
\* non-2xx response becomes the normalized transport error with its status;
\* a value the mapper returns is handed on; what the mapper throws is
\* handed on as it was thrown.
call(response, mapped) ==
    IF ~response.ok
    THEN [st |-> "error", kind |-> "TransportError", detail |-> response.status,
          value |-> mapped.value]
    ELSE IF mapped.st = "return"
    THEN [st |-> "next", kind |-> "", detail |-> "", value |-> mapped.value]
    ELSE [st |-> "error", kind |-> "DecodeFailure", detail |-> mapped.thrown,
          value |-> mapped.value]

\* map(({ body }) => mapper(body)) runs the mapper on a 2xx response only.
NotRun == [st |-> "none", value |-> [variant |-> "", payload |-> Undefined], thrown |-> ""]
MapperRuns(m, networkType, response) ==
    IF response.ok THEN Mapper(m, response, networkType) ELSE {NotRun}

\* The node answers the namespace request of a consumer of method m that
\* was handed networkType: the mapper runs and the consumer gets the outcome.
NamespaceResponds(m, networkType, response) ==
    /\ \E mapped \in MapperRuns(m, networkType, response) :
          result' = [op |-> m, networkType |-> networkType, response |-> response,
                     mapped |-> mapped, outcome |-> call(response, mapped)]
    /\ UNCHANGED <<vars, endpoint, requests>>

NextDecode ==
    \E m \in DecodingMethods, networkType \in NetworkTypes, response \in Responses :
        NamespaceResponds(m, networkType, response)

SpecDecode == Init /\ [][NextDecode]_<<vars, mapping>>

(* ------------------------------ listener ------------------------------ *)
\* RepositoryFactoryHttp.constructor, for every url and push-channel
\* configuration.
InitListener ==
    /\ ConstructFactory
    /\ \E url \in Urls, wsUrl \in ConfigWebsocketUrls, wsInjected \in ConfigWebsocketInjected :
          endpoint = ConstructEndpoint(url, wsUrl, wsInjected)
    /\ requests = <<>>
    /\ result = NoResult

\* createListener(): new Listener(this.websocketUrl,
\* this.createNamespaceRepository(), this.websocketInjected)
CreateListener ==
    /\ Ops < MaxOps
    /\ LET e == createNetworkTypeObservable(NetworkTypeArgument("namespace"),
                                            Cardinality(repos) + 1)
           repo == [kind |-> "namespace", networkTypeObservable |-> e.at]
       IN  /\ repos' = repos \cup {repo}
           /\ heap' = HeapWith(e)
           /\ http' = HttpWith(e)
           /\ result' = [op |-> "createListener", url |-> endpoint.websocketUrl,
                          repository |-> repo, websocket |-> endpoint.websocketInjected]
    /\ UNCHANGED <<configs, calls, subs, endpoint, requests>>

NextListener ==
    \/ CreateListener
    \/ \E h \in DOMAIN heap, ok \in BOOLEAN, body \in NetworkTypes \cup GenerationHashes :
          FetchSettles(h, ok, body)

SpecListener == InitListener /\ [][NextListener]_<<vars, mapping>>

(* ------------------------------- UInt64 ------------------------------- *)
\* A numeric string is a sequence of decimal digits.
Digit == 0..9
NumericStrings == UNION {[1..n -> Digit] : n \in 0..MaxDigits}

\* One word of a UInt64 holds the values below Word.
Word == 2 ^ WordBits

RECURSIVE ValueOf(_)
\* The integer a sequence of digits denotes.
ValueOf(s) ==
    IF Len(s) = 0 THEN 0 ELSE 10 * ValueOf(SubSeq(s, 1, Len(s) - 1)) + s[Len(s)]

\* A valid numeric string: digits without a leading zero that denote a
\* value two words can hold.
IsNumericString(s) ==
    /\ Len(s) > 0
    /\ Len(s) > 1 => s[1] # 0
    /\ ValueOf(s) < Word * Word

\* UInt64.fromNumericString(value): the (high, low) words of the value, or
\* MalformedValue.
fromNumericString(s) ==
    IF IsNumericString(s)
    THEN [ok |-> TRUE, high |-> ValueOf(s) \div Word, low |-> ValueOf(s) % Word]
    ELSE [ok |-> FALSE, high |-> 0, low |-> 0]

RECURSIVE DigitsOf(_)
\* The decimal digits of n, most significant first.
DigitsOf(n) == IF n < 10 THEN <<n>> ELSE Append(DigitsOf(n \div 10), n % 10)

\* UInt64.toString()
toString(u) == DigitsOf(u.high * Word + u.low)

\* getBlockByHeight: the path argument of the route call, height.toString().
HeightArgument_low(height) == toString([height EXCEPT !.high = 0])
HeightArgument(height) == toString(height)

\* toBlockInfo(dto), for the first block the client reads: the BlockInfo's
\* height is UInt64.fromNumericString(dto.block.height); the mapper throws
\* when the string is rejected.
toBlockInfo(s) ==
    /\ result = NoResult
    /\ result' = [op |-> "toBlockInfo", input |-> s, height |-> fromNumericString(s),
                   sent |-> <<>>]
    /\ UNCHANGED <<vars, endpoint, requests>>

\* getBlockByHeight(height), called with the height of the BlockInfo that
\* was just read.
GetBlockByHeight ==
    /\ result.op = "toBlockInfo"
    /\ result.height.ok
    /\ result' = [result EXCEPT !.op = "getBlockByHeight",
                                 !.sent = HeightArgument(result.height)]
    /\ UNCHANGED <<vars, endpoint, requests>>

NextCodec ==
    \/ result = NoResult /\ \E s \in NumericStrings : toBlockInfo(s)
    \/ GetBlockByHeight

SpecCodec == Init /\ [][NextCodec]_<<vars, mapping>>

(* ============================== claims ================================ *)
NetworkEndpoint == <<"/network", "">>
NodeInfoEndpoint == <<"/node/info", "">>

Consumers(op) == {u \in BagToSet(subs) : u.op = op}
ConsumersOf(k) == {u \in BagToSet(subs) : u.op = "call" /\ u.call = k}
ContextCalls == {k \in 1..Len(calls) : calls[k].method \in ContextMethods}
DirectCalls == {k \in 1..Len(calls) : calls[k].method \in DirectMethods}

\* C1: a factory built without an explicit network type, with at least one
\* getNetworkType() consumer: exactly one network-identity request has been
\* issued, every outcome a consumer has comes from that request, and all
\* consumers that were handed a value were handed the same value.
C1_OneFetchSameValue ==
    (configs.networkType = Undefined /\ Consumers("getNetworkType") # {}) =>
        /\ http[NetworkEndpoint] = 1
        /\ \A u \in Consumers("getNetworkType") : u.st \in {"next", "error"} => u.fetch = 1
        /\ \A u, v \in Consumers("getNetworkType") :
              (u.st = "next" /\ v.st = "next") => u.value = v.value

\* Two consumers subscribed before the outcome was delivered and both were
\* handed the value of the one request.
C1_Witness ==
    /\ configs.networkType = Undefined
    /\ http[NetworkEndpoint] = 1
    /\ Copies({u \in Consumers("getNetworkType") : u.subject = 1 /\ u.st = "next"}, subs) >= 2

\* C2: in every reachable state at most one identity request has been
\* issued for the network type and at most one for the generation hash.
C2_AtMostOneFetchPerValue ==
    /\ http[NetworkEndpoint] <= 1
    /\ http[NodeInfoEndpoint] <= 1
    /\ \A h \in DOMAIN heap : heap[h].fetches <= 1

\* The generation hash was demanded again after its request had failed, and
\* a context-dependent repository exists.
C2_Witness ==
    /\ \E u \in Consumers("getGenerationHash") : u.subject >= 2 /\ u.st = "error"
    /\ \E r \in repos : r.kind \in ContextKinds
    /\ http[NodeInfoEndpoint] = 1

\* C3: once the network-identity request has failed, no getNetworkType()
\* consumer is ever handed a value, every consumer that has an outcome has
\* the failure of that one request, and no further request is issued.
C3_FailureIsTerminal ==
    heap[NetworkTypeField].promise = "rejected" =>
        /\ http[NetworkEndpoint] = 1
        /\ \A u \in Consumers("getNetworkType") :
              /\ u.st # "next"
              /\ u.st = "error" => (u.error = "ResolutionFailure" /\ u.fetch = 1)

\* One consumer saw the failure, and a consumer that subscribed after the
\* failure saw it too.
C3_Witness ==
    /\ heap[NetworkTypeField].promise = "rejected"
    /\ \E u \in Consumers("getNetworkType") : u.subject = 1 /\ u.st = "error"
    /\ \E u \in Consumers("getNetworkType") : u.subject = 2 /\ u.st = "error"

\* C4: a tracked value supplied in the configuration is resolved from
\* construction on and no identity request is ever issued for it.
C4_SuppliedNeverFetched ==
    /\ configs.networkType # Undefined =>
          (heap[NetworkTypeField].kind = "of" /\ http[NetworkEndpoint] = 0)
    /\ configs.generationHash # Undefined =>
          (heap[GenerationHashField].kind = "of" /\ http[NodeInfoEndpoint] = 0)

\* C5: factory with an explicit network type only; after
\* createAccountRepository().getAccountInfo(addr) and nothing else, the only
\* request issued is the one to the account endpoint for addr.
C5_OnlyTheAccountRequest ==
    (/\ Truthy(configs.networkType)
     /\ configs.generationHash = Undefined
     /\ repos = {[kind |-> "account", networkTypeObservable |-> NoObservable]}
     /\ Len(calls) = 1
     /\ calls[1].method = "getAccountInfo"
     /\ \A u \in BagToSet(subs) : u.op = "call") =>
        \A key \in HttpKeys :
            http[key] = IF key = <<"/accounts", calls[1].arg>> THEN 1 ELSE 0

\* The network type the factory's own observable has resolved to.
ResolvedNetworkType ==
    IF heap[NetworkTypeField].kind = "of"
    THEN heap[NetworkTypeField].value
    ELSE heap[NetworkTypeField].buffer

\* C6: every context-dependent repository holds the factory's own
\* network-type observable, and every network type a repository call was
\* handed is the one that observable resolved to, which is also what every
\* getNetworkType() consumer and every other repository call was handed.
C6_SharedResolver ==
    /\ \A r \in repos : r.kind \in ContextKinds => r.networkTypeObservable = NetworkTypeField
    /\ \A u \in BagToSet(subs) :
          (u.op = "call" /\ u.value # Undefined) =>
              /\ u.value = ResolvedNetworkType
              /\ \A v \in BagToSet(subs) :
                    (v.op \in {"call", "getNetworkType"} /\ v.value # Undefined)
                        => v.value = u.value

\* A call on a repository created before the network type was resolved was
\* handed the value resolved later, the same a getNetworkType() consumer got.
C6_Witness ==
    \E u \in BagToSet(subs) :
        /\ u.op = "call" /\ u.subject = 1 /\ u.value # Undefined
        /\ \E v \in Consumers("getNetworkType") : v.st = "next" /\ v.value = u.value

\* C7: a tracked value that no consumer has demanded yet has had no identity
\* request issued for it.
C7_NoFetchBeforeDemand ==
    \A h \in {NetworkTypeField, GenerationHashField} :
        (\A u \in BagToSet(subs) : u.ctx # h) =>
            (heap[h].fetches = 0 /\ http[IdentityEndpoint(h)] = 0)

\* C8: for every shared resolution, whatever consumers have abandoned it:
\* no second request is issued, every consumer still waiting is attached to
\* the live source subscription, and every outcome handed out is that of
\* the one request.
C8_AbandonDoesNotCancel ==
    \A h \in DOMAIN heap :
        heap[h].kind = "shareReplay" =>
            /\ http[IdentityEndpoint(h)] <= 1
            /\ Waiting(h) # {} => heap[h].subscription
            /\ \A u \in BagToSet(subs) :
                  (u.ctx = h /\ u.st \in {"next", "error"}) => u.fetch = 1

\* One consumer abandoned the resolution in flight; a consumer that was
\* waiting with it and one that came later were both handed the value.
C8_Witness ==
    /\ \E u \in BagToSet(subs) : u.ctx = NetworkTypeField /\ u.st = "unsubscribed"
    /\ \E u \in BagToSet(subs) : u.ctx = NetworkTypeField /\ u.subject = 1 /\ u.st = "next"
    /\ \E u \in BagToSet(subs) : u.ctx = NetworkTypeField /\ u.subject = 0 /\ u.st = "next"
    /\ http[NetworkEndpoint] = 1

\* C9: when the network-type resolution has failed, no consumer of a
\* context-dependent NamespaceHttp call gets a result, each that has an
\* outcome has the resolution failure, and no namespace request was issued.
C9_ResolutionFailurePropagates ==
    heap[NetworkTypeField].promise = "rejected" =>
        /\ \A k \in ContextCalls :
              /\ calls[k].requests = 0
              /\ http[EndpointOf(calls[k].method, calls[k].arg)] = 0
              /\ \A u \in ConsumersOf(k) :
                    /\ u.st \in {"awaitContext", "error", "unsubscribed"}
                    /\ u.st = "error" => u.error = "ResolutionFailure"

C9_Witness ==
    \E k \in ContextCalls :
        \E u \in ConsumersOf(k) :
            /\ u.st = "error" /\ u.error = "ResolutionFailure"
            /\ calls[k].requests = 0

\* C10 (as stated): every invocation of a repository method has issued
\* exactly one request.
C10_OneRequestPerInvocation ==
    \A k \in 1..Len(calls) : calls[k].requests = 1

RECURSIVE RequestsTo(_, _)
\* Requests the first k invocations have issued to route key.
RequestsTo(key, k) ==
    IF k = 0 THEN 0
    ELSE RequestsTo(key, k - 1)
         + (IF EndpointOf(calls[k].method, calls[k].arg) = key THEN calls[k].requests ELSE 0)

\* C10 (amended): an invocation of a method that does not depend on the
\* context has issued exactly one request, however many consumers attached
\* and whatever the outcome; an invocation of a context-dependent method has
\* issued one request per consumer that was handed the network type; and no
\* route has received any request beyond those.
C10_RequestsPerInvocation ==
    /\ \A k \in DirectCalls : calls[k].requests = 1
    /\ \A k \in ContextCalls :
          calls[k].requests = Copies({u \in ConsumersOf(k) : u.value # Undefined}, subs)
    /\ \A key \in HttpKeys \ {NetworkEndpoint, NodeInfoEndpoint} :
          http[key] = RequestsTo(key, Len(calls))

\* Two consumers attached to one failed direct call: one request; or two
\* consumers of one context call: two requests.
C10_Witness ==
    \/ \E k \in DirectCalls :
          /\ calls[k].promise = "rejected"
          /\ Copies({u \in ConsumersOf(k) : u.st = "error"}, subs) >= 2
          /\ calls[k].requests = 1
    \/ \E k \in ContextCalls : calls[k].requests = 2

Decoded(m) == result.op = m /\ result.response.ok /\ result.response.hasNamespace

\* The mapper of the last step returned value v / threw x.
MapperReturned(v) == result.mapped.st = "return" /\ result.mapped.value = v
MapperThrew(x) == result.mapped.st = "throw" /\ result.mapped.thrown = x

\* The last step handed its consumer the decode failure x.
DecodeFailed(x) ==
    /\ result.outcome.st = "error"
    /\ result.outcome.kind = "DecodeFailure"
    /\ result.outcome.detail = x

\* C12: under SpecDecode, the alias variant of a decoded namespace is a
\* function of the discriminator alone: none or an absent alias gives None
\* whatever payload fields are present, mosaic with its id gives the mosaic
\* variant and address with its address the address variant whatever the
\* other field holds, and no decoding yields the variant of another tag.
C12_VariantByDiscriminator ==
    Decoded("getNamespace") =>
        LET a == result.response.alias
        IN  /\ (~a.present \/ a.type = "None") =>
                  MapperReturned([variant |-> "None", payload |-> Undefined])
            /\ (a.present /\ a.type = "Mosaic" /\ a.mosaicId # Undefined) =>
                  MapperReturned([variant |-> "Mosaic", payload |-> a.mosaicId])
            /\ (a.present /\ a.type = "Address" /\ a.address # Undefined) =>
                  MapperReturned([variant |-> "Address", payload |-> a.address])
            /\ result.mapped.st = "return" =>
                  result.mapped.value.variant = (IF a.present THEN a.type ELSE "None")

\* Discriminator none with both stray payload fields present decoded to None.
C12_Witness ==
    /\ Decoded("getNamespace")
    /\ result.response.alias.type = "None"
    /\ result.response.alias.mosaicId # Undefined
    /\ result.response.alias.address # Undefined
    /\ MapperReturned([variant |-> "None", payload |-> Undefined])

LinkedOutcome(m, absent) ==
    LET a == result.response.alias
        field == IF m = "getLinkedMosaicId" THEN a.mosaicId ELSE a.address
        tag == IF m = "getLinkedMosaicId" THEN "Mosaic" ELSE "Address"
        variant == IF m = "getLinkedMosaicId" THEN "MosaicId" ELSE "Address"
        message == IF m = "getLinkedMosaicId" THEN "No mosaicId is linked to namespace"
                   ELSE "No address is linked to namespace"
    IN  (result.op = m /\ result.response.ok) =>
            IF ~result.response.hasNamespace THEN MapperThrew("UpstreamBody")
            ELSE IF a.present /\ a.type = tag /\ field # Undefined
            THEN MapperReturned([variant |-> variant, payload |-> field])
            ELSE IF ~a.present THEN MapperThrew(absent)
            ELSE MapperThrew(message)

C15_ListenerUrl ==
    result.op = "createListener" =>
        LET u == endpoint.url
            base == IF u[Len(u)] = "/" THEN Len(u) - 1 ELSE Len(u)
        IN  /\ TruthyUrl(endpoint.configured) => result.url = endpoint.configured
            /\ ~TruthyUrl(endpoint.configured) =>
                  /\ Len(result.url) = base + 2
                  /\ \A i \in 1..base : result.url[i] = u[i]
                  /\ result.url[base + 1] = "/"
                  /\ result.url[base + 2] = "ws"
                  /\ Head(result.url) = Host
            /\ result.websocket = endpoint.websocketInjected
            /\ result.repository.networkTypeObservable = NetworkTypeField
            /\ DOMAIN heap = {NetworkTypeField, GenerationHashField}
            /\ http[NetworkEndpoint] = heap[NetworkTypeField].fetches
            /\ http[NodeInfoEndpoint] = heap[GenerationHashField].fetches

\* A factory at "http://node:3000/" without an override and with an
\* injected handle: the listener got "http://node:3000/ws" and the handle.
C15_Witness ==
    /\ result.op = "createListener"
    /\ endpoint.url = <<Host, "/">>
    /\ endpoint.configured = UndefinedUrl
    /\ result.url = <<Host, "/", "ws">>
    /\ result.websocket = "InjectedWebSocket"

NameCalls == {k \in 1..Len(calls) : calls[k].method \in NameMethods}

\* The factory's network type is resolved: supplied, or fetched and buffered.
NetworkTypeResolved ==
    heap[NetworkTypeField].kind = "of" \/ heap[NetworkTypeField].buffer # Undefined

\* C18: under SpecNamespace, while the network type is not resolved no
\* context-dependent NamespaceHttp call has issued a request and none of its
\* consumers is past waiting for the context; every call of getAccountsNames,
\* getMosaicsNames or getNamespacesName has issued its request in any state
\* of the resolution, its consumers are not attached to the network-type
\* observable, and as long as only such calls have consumers the
\* network-type observable has never been subscribed and no identity
\* request beyond the construction's was issued.
C18_RequestAfterResolution ==
    /\ ~NetworkTypeResolved =>
          \A k \in ContextCalls :
              /\ calls[k].requests = 0
              /\ http[EndpointOf(calls[k].method, calls[k].arg)] = 0
              /\ \A u \in ConsumersOf(k) : u.st \in {"awaitContext", "error", "unsubscribed"}
    /\ \A k \in NameCalls :
          /\ calls[k].requests = 1
          /\ http[EndpointOf(calls[k].method, calls[k].arg)] >= 1
          /\ \A u \in ConsumersOf(k) : u.ctx = NoObservable
    /\ (\A u \in BagToSet(subs) : u.op = "call" /\ u.call \in NameCalls) =>
          /\ heap[NetworkTypeField].connects = 0
          /\ heap[NetworkTypeField].refCount = 0
          /\ http[NetworkEndpoint] = heap[NetworkTypeField].fetches

\* While the network type was still being fetched, a consumer of a name
\* call already has its answer and a context-dependent call has issued
\* nothing.
C18_Witness ==
    /\ heap[NetworkTypeField].promise = "pending"
    /\ \E k \in NameCalls :
          /\ calls[k].requests = 1
          /\ \E u \in ConsumersOf(k) : u.st = "next"
    /\ \E k \in ContextCalls : calls[k].requests = 0

====
